---- MODULE Spec2Model ----
(***************************************************************************)
(* A model of casualtesting.js: the suite runner (suite / test /           *)
(* testasync with its promise reactions and the microtask queue) and the   *)
(* call recorder (masque) with the recorder matchers of MasqueExpectation, *)
(* and the matchers toThrow and yields.                                    *)
(*                                                                         *)
(* Spec        the suite runner                                            *)
(* FairSpec    the suite runner whose jobs run and whose promises settle   *)
(* MasqueSpec  one masque wrapper and the matchers used on it              *)
(* ExpectSpec  one test whose fn uses toThrow and yields                   *)
(***************************************************************************)
EXTENDS Integers, Sequences, FiniteSets, TLC

(***************************************************************************)
(* Bounds of the model.                                                    *)
(***************************************************************************)
MaxOps == 4
MaxInvocations == 2
MaxDepth == 2
MaxChecks == 2
MaxItems == 3

\* MaxOps bounds the calls of suite, test and testasync taken together
SuiteIds == 1..MaxOps
TestIds == 1..MaxOps
NoSuite == 0

VARIABLES
    currentsuite,   \* the module variable currentsuite: NoSuite is undefined
    suites,         \* the Suite objects: asynctests, attempts, passed, failed, messages
    phase,          \* where each call of suite() stands
    nsuites,        \* Suite objects constructed so far
    stack,          \* suite bodies (fn of suite) executing now, innermost last
    promise,        \* what asyncfn returned for each testasync call
    waiting,        \* remainingElementsCount of each suite's Promise.allSettled
    jobs,           \* the microtask queue, oldest first
    output,         \* the console, as written by Suite.report
    ntests,         \* calls of test and testasync made so far (the label of a call)
    tests,          \* history: who made each call and what became of it
    call,           \* observation: how the most recent call of test/testasync ended
    unhandled,      \* derived promises that rejected with no handler attached
    enclosing,      \* history: the suite whose body called suite(), NoSuite if none did
    memo,           \* masque: the memo objects, by identity
    memos,          \* masque: the memos array of the closure (memo identities)
    inflight,       \* masque: wrapper invocations whose fn has not finished, innermost last
    invoked,        \* masque history: argument lists of the ordinary invocations, in order
    fnout,          \* masque history: how fn ended for each memo ("running" until it does)
    lcwaUsed,       \* masque history: lastCalledWithArgs has been used on the wrapper
    result,         \* masque observation: how the most recent operation ended
    chain,          \* expect: the matchers fn of the test has evaluated, in order
    verdict         \* expect: the Suite once test has returned (empty until then)

runnerVars == <<currentsuite, suites, phase, nsuites, stack, promise, waiting,
                jobs, output, ntests, tests, call, unhandled, enclosing>>
masqueVars == <<memo, memos, inflight, invoked, fnout, lcwaUsed, result>>
expectVars == <<chain, verdict>>
vars == <<runnerVars, masqueVars, expectVars>>

Last(s) == s[Len(s)]
Front(s) == SubSeq(s, 1, Len(s) - 1)

(***************************************************************************)
(* class Suite                                                             *)
(***************************************************************************)
Msg(type, text, label) == [type |-> type, text |-> text, label |-> label]

NewSuite ==
    [asynctests |-> <<>>, attempts |-> 0, passed |-> 0, failed |-> 0,
     messages |-> <<>>]

Info(meta, text, label) ==
    [meta EXCEPT !.messages = Append(@, Msg("info", text, label))]

Error(meta, text, label) ==
    [meta EXCEPT !.messages = Append(@, Msg("error", text, label))]

Report(s, meta) ==
    [i \in 1..Len(meta.messages) |-> [suite |-> s, msg |-> meta.messages[i]]]

(***************************************************************************)
(* Promises.  A reaction is what then/catch/allSettled attach to a promise *)
(* and, once the promise is settled, the job the microtask queue runs.     *)
(***************************************************************************)
Job(kind, s, t) == [kind |-> kind, suite |-> s, test |-> t]

NoPromise == [state |-> "unused", error |-> "none", reactions |-> <<>>]

Settled(p) == p.state \in {"fulfilled", "rejected"}

\* asyncfn's promise as it is when asyncfn returns it
Returned(outcome) ==
    [state |-> CASE outcome = "pending" -> "pending"
                 [] outcome = "fulfilled" -> "fulfilled"
                 [] outcome = "rejectedError" -> "rejected"
                 [] OTHER -> "nonpromise",
     error |-> IF outcome = "rejectedError" THEN "Error" ELSE "none",
     reactions |-> <<>>]

\* p.then(f) / p.catch(f): a pending promise keeps the reaction, a settled
\* one queues it at once
AttachPromise(p, r) ==
    IF p.state = "pending" THEN [p EXCEPT !.reactions = Append(@, r)] ELSE p

AttachJobs(p, r, q) ==
    IF p.state = "pending" THEN q ELSE Append(q, r)

(***************************************************************************)
(* test(label, fn), lines 18-37.  fn returns, throws a TestError or throws *)
(* another Error.  The value is the Suite after the call and whether an    *)
(* exception left test.                                                    *)
(***************************************************************************)
FnOutcomes == {"returns", "TestError", "Error"}

TestCatch(meta, label, error) ==
    LET m == [meta EXCEPT !.failed = @ + 1]
    IN  IF error = "TestError"
        THEN Error(Error(m, "FAIL", <<label>>), error, <<label>>)
        ELSE Error(Info(Error(m, "TEST CODE FAILURE", <<label>>),
                        "HINT", <<label>>), error, <<label>>)

\* test with a catch that handles TestError alone and rethrows the rest
TestOpRethrows(meta, label, fnOutcome) ==
    LET m == [meta EXCEPT !.attempts = @ + 1]
    IN  IF fnOutcome = "returns"
        THEN [meta |-> Info([m EXCEPT !.passed = @ + 1], "PASS", <<label>>),
              threw |-> FALSE]
        ELSE IF fnOutcome = "TestError"
        THEN [meta |-> TestCatch(m, label, fnOutcome), threw |-> FALSE]
        ELSE [meta |-> m, threw |-> TRUE]

TestOp(meta, label, fnOutcome) ==
    LET m == [meta EXCEPT !.attempts = @ + 1]
    IN  IF fnOutcome = "returns"
        THEN [meta |-> Info([m EXCEPT !.passed = @ + 1], "PASS", <<label>>),
              threw |-> FALSE]
        ELSE [meta |-> TestCatch(m, label, fnOutcome), threw |-> FALSE]

(***************************************************************************)
(* testasync(label, asyncfn), lines 46-67.  asyncfn returns a promise      *)
(* (pending, or already settled as an async function that never awaits     *)
(* returns it: fulfilled, or rejected with the Error it threw), throws     *)
(* before returning, or returns something that is no promise.  A pending   *)
(* promise settles later: it fulfils, or rejects with a TestError.         *)
(***************************************************************************)
AsyncOutcomes ==
    {"pending", "fulfilled", "rejectedError", "throws", "nonpromise"}

SettleOutcomes == {"fulfilled", "TestError"}

Throws(outcome) == outcome = "throws"

\* the handler given to promise.then, lines 52-55
AsyncPass(meta, label) ==
    Info([meta EXCEPT !.passed = @ + 1], "PASS", <<label>>)

\* a catch handler that reports every rejection as a failed expectation
AsyncCatchAllFail(meta, label, error) ==
    LET m == [meta EXCEPT !.failed = @ + 1]
    IN  Error(Error(m, "FAIL", <<label>>), error, <<label>>)

\* the handler given to promise.catch, lines 56-66
AsyncCatch(meta, label, error) ==
    LET m == [meta EXCEPT !.failed = @ + 1]
    IN  IF error = "TestError"
        THEN Error(Error(m, "FAIL", <<label>>), error, <<label>>)
        ELSE Error(Info(Error(m, "TEST CODE FAILURE", <<label>>),
                        "HINT", <<label>>), error, <<label>>)

\* the Suite after testasync: the attempt is counted before asyncfn runs and
\* the returned value is pushed unless asyncfn threw
AsyncMeta(meta, label, outcome) ==
    LET m == [meta EXCEPT !.attempts = @ + 1]
    IN  IF Throws(outcome) THEN m
        ELSE [m EXCEPT !.asynctests = Append(@, label)]

\* an exception leaves testasync when asyncfn throws (line 50) or when the
\* returned value has no then (line 52)
AsyncThrew(outcome) == Throws(outcome) \/ outcome = "nonpromise"

\* the reactions testasync attaches, in the order of lines 52 and 56
AsyncReactions(s, label) == <<Job("then", s, label), Job("catch", s, label)>>

(***************************************************************************)
(* suite(label, fn), lines 107-119.                                        *)
(***************************************************************************)
\* a suite that counts on from the counters of the suite before it, as
\* counters kept by the module rather than by the Suite would
SuiteStartKeepsCounts(s) ==
    IF currentsuite = NoSuite THEN Info(NewSuite, "Starting", <<s>>)
    ELSE Info([suites[currentsuite] EXCEPT !.asynctests = <<>>, !.messages = <<>>],
              "Starting", <<s>>)

\* line 110
SuiteStart(s) == Info(NewSuite, "Starting", <<s>>)

\* Promise.allSettled(meta.asynctests), line 114: it walks the array as it is
\* now and attaches one reaction to each entry; an entry that is already
\* settled, or is no promise, has its reaction queued at once
\* a wait that does not wait: every entry counts as settled at once
AllSettledNoWait(list, s, P, q) ==
    [promise |-> P,
     jobs |-> q \o [i \in 1..Len(list) |-> Job("allSettled", s, list[i])]]

RECURSIVE AllSettled(_, _, _, _)
AllSettled(list, s, P, q) ==
    IF list = <<>> THEN [promise |-> P, jobs |-> q]
    ELSE LET t == Head(list)
             r == Job("allSettled", s, t)
         IN  AllSettled(Tail(list), s,
                        [P EXCEPT ![t] = AttachPromise(@, r)],
                        AttachJobs(P[t], r, q))

\* lines 115-117
SuiteSummary(s, meta) ==
    Info(Info(Info(meta, "Results", <<s>>),
              "Summary", <<meta.passed, meta.attempts, meta.failed>>),
         "Separator", <<s>>)

(***************************************************************************)
(* masque(fn), lines 136-159, and the matchers of MasqueExpectation,       *)
(* lines 278-327.  Values are the primitives 1, "1", "a" and undefined,    *)
(* and the symbol masque.memos.                                            *)
(***************************************************************************)
Memos == "Symbol(masque.memos)"

\* the == of JavaScript on these values: 1 == "1", and a symbol equals itself
LooseEq(a, b) == a = b \/ {a, b} = {"n1", "s1"}

\* argument lists the wrapper and lastCalledWithArgs are called with
ArgLists ==
    {<<>>, <<"n1">>, <<"s1">>, <<"sa">>, <<Memos, "n1">>}

\* how fn ends: it returns a value or throws
FnResults ==
    {[kind |-> "return", value |-> "undefined"],
     [kind |-> "return", value |-> "n1"],
     [kind |-> "throw", value |-> "Error"]}

\* line 140
IsRetrievalAnyLength(args) == Len(args) >= 1 /\ LooseEq(args[1], Memos)

IsRetrieval(args) == Len(args) = 1 /\ LooseEq(args[1], Memos)

\* line 144: a memo has args alone until fn ends
NewMemo(args) ==
    [args |-> args, hasResult |-> FALSE, result |-> "none",
     hasError |-> FALSE, error |-> "none"]

\* a wrapper that notes a result for a throwing call too
MemoDoneAlwaysResult(m, out) ==
    IF out.kind = "return"
    THEN [m EXCEPT !.hasResult = TRUE, !.result = out.value]
    ELSE [m EXCEPT !.hasResult = TRUE, !.result = "undefined",
                   !.hasError = TRUE, !.error = out.value]

\* lines 146-151: the memo once fn has ended
MemoDone(m, out) ==
    IF out.kind = "return"
    THEN [m EXCEPT !.hasResult = TRUE, !.result = out.value]
    ELSE [m EXCEPT !.hasError = TRUE, !.error = out.value]

\* lines 150 and 152: what the wrapper hands to its caller
WrapperEnds(m, out) ==
    IF out.kind = "return"
    THEN [kind |-> "return", value |-> m.result]
    ELSE [kind |-> "throw", value |-> out.value]

\* the wrapper as expect sees it: a function carrying the sigil, line 154
Wrapper == [type |-> "function", sigil |-> "Symbol(masque.sigil)"]

\* MasqueExpectation.typecheck, lines 280-286: "Error" when it throws
Typecheck(value) ==
    IF value.type # "function" THEN "Error"
    ELSE IF value.sigil # "Symbol(masque.sigil)" THEN "Error"
    ELSE "ok"

\* lines 288-293, 295-300, 302-307: "ok" when the matcher returns, else the
\* kind of error it throws
WasCalled(log) ==
    IF Typecheck(Wrapper) # "ok" THEN Typecheck(Wrapper)
    ELSE IF Len(log) < 1 THEN "TestError" ELSE "ok"

WasCalledOnceAtLeast(log) ==
    IF Typecheck(Wrapper) # "ok" THEN Typecheck(Wrapper)
    ELSE IF Len(log) < 1 THEN "TestError" ELSE "ok"

WasCalledOnce(log) ==
    IF Typecheck(Wrapper) # "ok" THEN Typecheck(Wrapper)
    ELSE IF Len(log) # 1 THEN "TestError" ELSE "ok"

WasNotCalled(log) ==
    IF Typecheck(Wrapper) # "ok" THEN Typecheck(Wrapper)
    ELSE IF Len(log) > 0 THEN "TestError" ELSE "ok"

\* lines 309-326: how the matcher ends, and the memos array after it
LastCalledWithArgs(log, heap, args) ==
    IF Typecheck(Wrapper) # "ok" THEN [ends |-> Typecheck(Wrapper), memos |-> log]
    ELSE IF Len(log) < 1 THEN [ends |-> "TestError", memos |-> log]
    ELSE LET last == heap[Last(log)]     \* memos.pop(), line 315
             rest == Front(log)
         IN  IF Len(args) # Len(last.args)
             THEN [ends |-> "TestError", memos |-> rest]
             ELSE IF \E i \in 1..Len(args) : ~LooseEq(last.args[i], args[i])
             THEN [ends |-> "TestError", memos |-> rest]
             ELSE [ends |-> "ok", memos |-> rest]

NoResult ==
    [op |-> "none", ok |-> TRUE, value |-> "none", args |-> <<>>, log |-> <<>>]

Outcome(op, ok, value, args, log) ==
    [op |-> op, ok |-> ok, value |-> value, args |-> args, log |-> log]

MasqueInit ==
    /\ memo = <<>>
    /\ memos = <<>>
    /\ inflight = <<>>
    /\ invoked = <<>>
    /\ fnout = <<>>
    /\ lcwaUsed = FALSE
    /\ result = NoResult

(***************************************************************************)
(* The matchers toThrow (FunctionExpectation, lines 262-275) and yields    *)
(* (Expectation, lines 222-229).  An error object is its class and where   *)
(* it was constructed, which stands for its identity.                      *)
(***************************************************************************)
\* TestError extends Error (line 10); TypeError, RangeError and
\* ReferenceError are the built-in subclasses of Error; CustomError is a
\* class of the test code that extends RangeError; a thrown value that is no
\* object (throw "text") is an instance of no class
Classes ==
    {"Error", "TestError", "TypeError", "RangeError", "ReferenceError",
     "CustomError"}

Parent(class) ==
    CASE class = "TestError" -> "Error"
      [] class = "TypeError" -> "Error"
      [] class = "RangeError" -> "Error"
      [] class = "ReferenceError" -> "Error"
      [] class = "CustomError" -> "RangeError"
      [] OTHER -> "none"

\* error instanceof ExpectedError: the prototype chain of the error is walked
RECURSIVE InstanceOf(_, _)
InstanceOf(class, ExpectedError) ==
    IF class = ExpectedError THEN TRUE
    ELSE IF Parent(class) = "none" THEN FALSE
    ELSE InstanceOf(Parent(class), ExpectedError)

NoError == [class |-> "none", origin |-> "none"]

ErrorObject(class, origin) == [class |-> class, origin |-> origin]

\* how a call ends: it returns a value or an error leaves it
Returns(value) == [ends |-> "returns", value |-> value, error |-> NoError]
Raises(error) == [ends |-> "throws", value |-> "none", error |-> error]

\* what the function given to expect does when toThrow calls it
Behaviours ==
    {Returns("undefined")} \cup
    {Raises(ErrorObject(c, "fn")) :
        c \in {"Error", "TestError", "TypeError", "RangeError", "CustomError",
               "primitive"}}

\* the classes a test passes to toThrow; Error is the default parameter
Kinds == {"Error", "TestError", "TypeError", "RangeError", "CustomError"}

\* toThrow that accepts an error of exactly the expected class only
ToThrowExact(fn, ExpectedError) ==
    LET error == IF fn.ends = "returns"
                 THEN ErrorObject("TestError", "toThrow") ELSE fn.error
    IN  IF InstanceOf(error.class, "TestError") THEN Raises(error)
        ELSE IF error.class # ExpectedError
        THEN Raises(ErrorObject("ReferenceError", "engine"))
        ELSE Returns("this")

\* toThrow that wraps what it caught into a TestError of its own
ToThrowWraps(fn, ExpectedError) ==
    LET error == IF fn.ends = "returns"
                 THEN ErrorObject("TestError", "toThrow") ELSE fn.error
    IN  IF InstanceOf(error.class, "TestError")
        THEN Raises(ErrorObject("TestError", "toThrow"))
        ELSE IF ~InstanceOf(error.class, ExpectedError)
        THEN Raises(ErrorObject("ReferenceError", "engine"))
        ELSE Returns("this")

\* lines 262-275.  The catch clause receives what fn threw, or the TestError
\* of line 265 when fn returned.  Line 271 builds its message from type.name,
\* and no binding named type exists in the module: evaluating the template
\* throws a ReferenceError before the TestError is constructed
ToThrow(fn, ExpectedError) ==
    LET error == IF fn.ends = "returns"
                 THEN ErrorObject("TestError", "toThrow") ELSE fn.error
    IN  IF InstanceOf(error.class, "TestError") THEN Raises(error)
        ELSE IF ~InstanceOf(error.class, ExpectedError)
        THEN Raises(ErrorObject("ReferenceError", "engine"))
        ELSE Returns("this")

\* lines 222-229 on a value that yields n items: i counts the items seen so
\* far, and the test of line 225 comes before the increment of line 226
RECURSIVE YieldsLoop(_, _, _)
YieldsLoop(n, i, count) ==
    IF n = 0
    THEN IF i < count THEN Raises(ErrorObject("TestError", "yields"))
         ELSE Returns("undefined")
    ELSE IF i > count THEN Raises(ErrorObject("TestError", "yields"))
    ELSE YieldsLoop(n - 1, i + 1, count)

Yields(n, count) == YieldsLoop(n, 0, count)

\* one matcher evaluated by fn of the test
NoCheck ==
    [op |-> "none", fn |-> Returns("undefined"), kind |-> "none",
     n |-> 0, count |-> 0, out |-> Returns("undefined")]

\* how fn of the test ended, as test (lines 21-36) sees it
FnOutcome(out) ==
    IF out.ends = "returns" THEN "returns"
    ELSE IF InstanceOf(out.error.class, "TestError") THEN "TestError"
    ELSE "Error"

ExpectInit ==
    /\ chain = <<>>
    /\ verdict = <<>>

(***************************************************************************)
(* The state after the module is loaded.                                   *)
(***************************************************************************)
NoTest == [kind |-> "none", by |-> NoSuite, meta |-> NoSuite,
           outcome |-> "none", registered |-> FALSE, awaited |-> FALSE,
           handled |-> FALSE]

NoCall == [op |-> "none", test |-> 0, by |-> NoSuite, meta |-> NoSuite,
           outcome |-> "none", threw |-> FALSE]

RunnerInit ==
    /\ currentsuite = NoSuite
    /\ suites = [s \in SuiteIds |-> NewSuite]
    /\ phase = [s \in SuiteIds |-> "idle"]
    /\ nsuites = 0
    /\ stack = <<>>
    /\ promise = [t \in TestIds |-> NoPromise]
    /\ waiting = [s \in SuiteIds |-> 0]
    /\ jobs = <<>>
    /\ output = <<>>
    /\ ntests = 0
    /\ tests = [t \in TestIds |-> NoTest]
    /\ call = NoCall
    /\ unhandled = {}
    /\ enclosing = [s \in SuiteIds |-> NoSuite]

Init == RunnerInit /\ MasqueInit /\ ExpectInit

(***************************************************************************)
(* The runner's steps.  Code runs to completion: while a suite body is     *)
(* executing (stack is not empty) only that body acts; otherwise a job of  *)
(* the microtask queue runs, a pending promise settles, or other code of   *)
(* the page (the continuation of an asynchronous test, a timer, the next   *)
(* statement of the test file) calls suite, test or testasync.             *)
(***************************************************************************)
By == IF stack = <<>> THEN NoSuite ELSE Last(stack)

\* a test that is tallied in the suite whose body is executing
MetaOfBody == IF stack = <<>> THEN currentsuite ELSE Last(stack)

\* const meta = currentsuite, lines 19 and 47: the Suite of the most recent
\* call of suite, whoever makes the call of test or testasync
CurrentMeta == currentsuite

\* an exception that leaves a call made by a suite body either is caught by
\* the body or leaves fn() at line 112, and then the suite's promise rejects
Escapes(threw, caught) == threw /\ ~caught /\ stack # <<>>

\* suite(label, fn) up to the call of fn, lines 108-112
StartSuite ==
    /\ nsuites + ntests < MaxOps
    /\ LET s == nsuites + 1
       IN  /\ nsuites' = s
           /\ currentsuite' = s
           /\ suites' = [suites EXCEPT ![s] = SuiteStart(s)]
           /\ phase' = [phase EXCEPT ![s] = "running"]
           /\ stack' = Append(stack, s)
           /\ enclosing' = [enclosing EXCEPT ![s] = By]
    /\ call' = NoCall
    /\ UNCHANGED <<promise, waiting, jobs, output, ntests, tests, unhandled>>
    /\ UNCHANGED <<masqueVars, expectVars>>

\* fn returned: suite goes on to line 114 and waits
EndBody ==
    /\ stack # <<>>
    /\ LET s == Last(stack)
           list == suites[s].asynctests
           a == AllSettled(list, s, promise, jobs)
       IN  /\ stack' = Front(stack)
           /\ phase' = [phase EXCEPT ![s] = "draining"]
           /\ promise' = a.promise
           /\ waiting' = [waiting EXCEPT ![s] = Len(list)]
           /\ jobs' = IF list = <<>> THEN Append(a.jobs, Job("resume", s, 0))
                      ELSE a.jobs
           /\ tests' = [t \in TestIds |->
                          IF \E i \in 1..Len(list) : list[i] = t
                          THEN [tests[t] EXCEPT !.awaited = TRUE] ELSE tests[t]]
    /\ call' = NoCall
    /\ UNCHANGED <<currentsuite, suites, nsuites, output, ntests, unhandled,
                   enclosing>>
    /\ UNCHANGED <<masqueVars, expectVars>>

\* a call of test
Test(fnOutcome, caught) ==
    /\ nsuites + ntests < MaxOps
    /\ LET t == ntests + 1
           meta == CurrentMeta
           r == IF meta = NoSuite THEN [meta |-> NewSuite, threw |-> TRUE]
                ELSE TestOp(suites[meta], t, fnOutcome)
       IN  /\ ntests' = t
           /\ suites' = IF meta = NoSuite THEN suites
                        ELSE [suites EXCEPT ![meta] = r.meta]
           /\ tests' = [tests EXCEPT ![t] =
                          [kind |-> "test", by |-> By, meta |-> meta,
                           outcome |-> fnOutcome, registered |-> FALSE,
                           awaited |-> FALSE, handled |-> ~r.threw]]
           /\ call' = [op |-> "test", test |-> t, by |-> By, meta |-> meta,
                       outcome |-> fnOutcome, threw |-> r.threw]
           /\ IF Escapes(r.threw, caught)
              THEN /\ stack' = Front(stack)
                   /\ phase' = [phase EXCEPT ![Last(stack)] = "rejected"]
              ELSE UNCHANGED <<stack, phase>>
    /\ UNCHANGED <<currentsuite, nsuites, promise, waiting, jobs, output, unhandled,
                   enclosing>>
    /\ UNCHANGED <<masqueVars, expectVars>>

\* a call of testasync
TestAsync(outcome, caught) ==
    /\ nsuites + ntests < MaxOps
    /\ LET t == ntests + 1
           meta == CurrentMeta
           threw == meta = NoSuite \/ AsyncThrew(outcome)
           attached == meta # NoSuite /\ ~AsyncThrew(outcome)
           p == Returned(outcome)
           rs == AsyncReactions(meta, t)
       IN  /\ ntests' = t
           /\ suites' = IF meta = NoSuite THEN suites
                        ELSE [suites EXCEPT ![meta] = AsyncMeta(@, t, outcome)]
           /\ promise' = IF meta = NoSuite \/ Throws(outcome) THEN promise
                         ELSE [promise EXCEPT ![t] =
                                 IF attached
                                 THEN AttachPromise(AttachPromise(p, rs[1]), rs[2])
                                 ELSE p]
           /\ jobs' = IF attached
                      THEN AttachJobs(p, rs[2], AttachJobs(p, rs[1], jobs))
                      ELSE jobs
           /\ tests' = [tests EXCEPT ![t] =
                          [kind |-> "testasync", by |-> By, meta |-> meta,
                           outcome |-> "none", registered |-> attached,
                           awaited |-> FALSE, handled |-> FALSE]]
           /\ call' = [op |-> "testasync", test |-> t, by |-> By, meta |-> meta,
                       outcome |-> outcome, threw |-> threw]
           /\ IF Escapes(threw, caught)
              THEN /\ stack' = Front(stack)
                   /\ phase' = [phase EXCEPT ![Last(stack)] = "rejected"]
              ELSE UNCHANGED <<stack, phase>>
    /\ UNCHANGED <<currentsuite, nsuites, waiting, output, unhandled, enclosing>>
    /\ UNCHANGED <<masqueVars, expectVars>>

\* a pending promise of an asynchronous test settles: its reactions are
\* queued in the order they were attached
Settle(t, how) ==
    /\ stack = <<>>
    /\ promise[t].state = "pending"
    /\ promise' = [promise EXCEPT ![t] =
                     [state |-> IF how = "fulfilled" THEN "fulfilled" ELSE "rejected",
                      error |-> IF how = "fulfilled" THEN "none" ELSE how,
                      reactions |-> <<>>]]
    /\ jobs' = jobs \o promise[t].reactions
    /\ call' = NoCall
    /\ UNCHANGED <<currentsuite, suites, phase, nsuites, stack, waiting, output,
                   ntests, tests, unhandled, enclosing>>
    /\ UNCHANGED <<masqueVars, expectVars>>

\* the oldest job of the microtask queue runs
RunJob ==
    /\ stack = <<>>
    /\ jobs # <<>>
    /\ LET j == Head(jobs)
           s == j.suite
           t == j.test
           rest == Tail(jobs)
       IN  CASE j.kind = "then" ->
                  \* lines 52-55; on a rejected promise the promise that then
                  \* returned rejects, and nothing handles it
                  /\ suites' = IF promise[t].state = "fulfilled"
                               THEN [suites EXCEPT ![s] = AsyncPass(@, t)]
                               ELSE suites
                  /\ tests' = IF promise[t].state = "fulfilled"
                              THEN [tests EXCEPT ![t].handled = TRUE]
                              ELSE tests
                  /\ unhandled' = IF promise[t].state = "rejected"
                                  THEN unhandled \cup {t} ELSE unhandled
                  /\ jobs' = rest
                  /\ UNCHANGED <<phase, waiting, output>>
             [] j.kind = "catch" ->
                  \* lines 56-66
                  /\ suites' = IF promise[t].state = "rejected"
                               THEN [suites EXCEPT ![s] =
                                       AsyncCatch(@, t, promise[t].error)]
                               ELSE suites
                  /\ tests' = IF promise[t].state = "rejected"
                              THEN [tests EXCEPT ![t].handled = TRUE]
                              ELSE tests
                  /\ jobs' = rest
                  /\ UNCHANGED <<phase, waiting, output, unhandled>>
             [] j.kind = "allSettled" ->
                  \* one entry of line 114 settled; the last one resolves the
                  \* promise suite awaits
                  /\ waiting' = [waiting EXCEPT ![s] = @ - 1]
                  /\ jobs' = IF waiting[s] = 1
                             THEN Append(rest, Job("resume", s, 0)) ELSE rest
                  /\ UNCHANGED <<suites, tests, phase, output, unhandled>>
             [] j.kind = "resume" ->
                  \* lines 115-118
                  /\ suites' = [suites EXCEPT ![s] = SuiteSummary(s, @)]
                  /\ output' = output \o Report(s, suites'[s])
                  /\ phase' = [phase EXCEPT ![s] = "reported"]
                  /\ jobs' = rest
                  /\ UNCHANGED <<tests, waiting, unhandled>>
    /\ call' = NoCall
    /\ UNCHANGED <<currentsuite, nsuites, stack, promise, ntests, enclosing>>
    /\ UNCHANGED <<masqueVars, expectVars>>

Next ==
    \/ StartSuite
    \/ EndBody
    \/ \E o \in FnOutcomes, c \in BOOLEAN : Test(o, c)
    \/ \E o \in AsyncOutcomes, c \in BOOLEAN : TestAsync(o, c)
    \/ \E t \in TestIds, how \in SettleOutcomes : Settle(t, how)
    \/ RunJob

Spec == Init /\ [][Next]_vars

\* The runner under the scheduling of a JavaScript engine: a suite body that
\* is executing runs on until it returns (unless an exception leaves it), the
\* microtask queue is drained whenever the call stack is empty, and, as the
\* assumption that every pending outcome settles, each pending promise of an
\* asynchronous test settles at some time.
FairSpec ==
    /\ Spec
    /\ WF_vars(EndBody)
    /\ WF_vars(RunJob)
    /\ \A t \in TestIds : WF_vars(\E how \in SettleOutcomes : Settle(t, how))

(***************************************************************************)
(* The steps of one masque wrapper.  The test code, or fn itself while a   *)
(* call is executing, calls the wrapper or uses a matcher on it; a call    *)
(* that is executing ends when fn returns or throws.                       *)
(***************************************************************************)
\* the wrapper is called: a retrieval returns the memos array, any other
\* call appends its memo (line 145) and enters fn (line 147)
Invoke(args) ==
    IF IsRetrieval(args)
    THEN /\ result' = Outcome("retrieve", TRUE, "memos", <<>>, memos)
         /\ invoked' = IF args = <<Memos>> THEN invoked ELSE Append(invoked, args)
         /\ UNCHANGED <<memo, memos, inflight, fnout, lcwaUsed>>
         /\ UNCHANGED <<runnerVars, expectVars>>
    ELSE /\ Len(memo) < MaxInvocations
         /\ Len(inflight) < MaxDepth
         /\ memo' = Append(memo, NewMemo(args))
         /\ memos' = Append(memos, Len(memo) + 1)
         /\ inflight' = Append(inflight, Len(memo) + 1)
         /\ fnout' = Append(fnout, [kind |-> "running", value |-> "none"])
         /\ invoked' = IF args = <<Memos>> THEN invoked ELSE Append(invoked, args)
         /\ result' = Outcome("call", TRUE, "none", <<>>, <<>>)
         /\ UNCHANGED <<lcwaUsed, runnerVars, expectVars>>

\* fn of the innermost executing call returns or throws, lines 146-152
Complete(out) ==
    /\ inflight # <<>>
    /\ LET id == Last(inflight)
           end == WrapperEnds(MemoDone(memo[id], out), out)
       IN  /\ memo' = [memo EXCEPT ![id] = MemoDone(@, out)]
           /\ fnout' = [fnout EXCEPT ![id] = out]
           /\ inflight' = Front(inflight)
           /\ result' = Outcome("return", end.kind = "return", end.value,
                                <<>>, <<id>>)
    /\ UNCHANGED <<memos, invoked, lcwaUsed>>
    /\ UNCHANGED <<runnerVars, expectVars>>

\* expect(wrapper).wasCalled(), .wasCalledOnce(), .wasNotCalled()
CountMatcher(op) ==
    /\ LET ends == CASE op = "wasCalled" -> WasCalled(memos)
                      [] op = "wasCalledOnce" -> WasCalledOnce(memos)
                      [] OTHER -> WasNotCalled(memos)
       IN  result' = Outcome(op, ends = "ok", ends, <<>>, <<>>)
    /\ UNCHANGED <<memo, memos, inflight, invoked, fnout, lcwaUsed>>
    /\ UNCHANGED <<runnerVars, expectVars>>

\* expect(wrapper).lastCalledWithArgs(...args)
LastCalledWithArgsOp(args) ==
    /\ LET r == LastCalledWithArgs(memos, memo, args)
       IN  /\ memos' = r.memos
           /\ result' = Outcome("lastCalledWithArgs", r.ends = "ok", r.ends, args, <<>>)
    /\ lcwaUsed' = TRUE
    /\ UNCHANGED <<memo, inflight, invoked, fnout>>
    /\ UNCHANGED <<runnerVars, expectVars>>

MasqueNext ==
    \/ \E args \in ArgLists \cup {<<Memos>>} : Invoke(args)
    \/ \E out \in FnResults : Complete(out)
    \/ \E op \in {"wasCalled", "wasCalledOnce", "wasNotCalled"} : CountMatcher(op)
    \/ \E args \in ArgLists : LastCalledWithArgsOp(args)

MasqueSpec == Init /\ [][MasqueNext]_vars

(***************************************************************************)
(* The steps of one test of a suite whose fn evaluates matchers one after  *)
(* another: the first matcher that throws ends fn, and test tallies how fn *)
(* ended.                                                                  *)
(***************************************************************************)
FnRunning ==
    /\ verdict = <<>>
    /\ IF chain = <<>> THEN TRUE ELSE Last(chain).out.ends = "returns"

\* expect(fn).toThrow(ExpectedError)
ExpectToThrow(fn, ExpectedError) ==
    /\ FnRunning
    /\ Len(chain) < MaxChecks
    /\ chain' = Append(chain, [NoCheck EXCEPT !.op = "toThrow", !.fn = fn,
                                              !.kind = ExpectedError,
                                              !.out = ToThrow(fn, ExpectedError)])
    /\ UNCHANGED verdict
    /\ UNCHANGED <<runnerVars, masqueVars>>

\* expect(value).yields(count) on a value that yields n items
ExpectYields(n, count) ==
    /\ FnRunning
    /\ Len(chain) < MaxChecks
    /\ chain' = Append(chain, [NoCheck EXCEPT !.op = "yields", !.n = n,
                                              !.count = count,
                                              !.out = Yields(n, count)])
    /\ UNCHANGED verdict
    /\ UNCHANGED <<runnerVars, masqueVars>>

\* fn is over, by its last statement or by the exception of a matcher, and
\* test (lines 18-37) tallies it in the suite
EndTest ==
    /\ verdict = <<>>
    /\ LET out == IF chain = <<>> THEN Returns("undefined") ELSE Last(chain).out
       IN  verdict' = <<TestOp(SuiteStart(1), 1, FnOutcome(out)).meta>>
    /\ UNCHANGED chain
    /\ UNCHANGED <<runnerVars, masqueVars>>

ExpectNext ==
    \/ \E fn \in Behaviours, ExpectedError \in Kinds : ExpectToThrow(fn, ExpectedError)
    \/ \E n \in 0..MaxItems, count \in 0..MaxItems : ExpectYields(n, count)
    \/ EndTest

ExpectSpec == Init /\ [][ExpectNext]_vars

(***************************************************************************)
(* Observations used by the properties of the runner.                      *)
(***************************************************************************)
\* the summaries a suite has buffered: <<passed, attempts, failed>> of line 116
Summaries(s) ==
    {suites[s].messages[i].label : i \in
        {k \in 1..Len(suites[s].messages) : suites[s].messages[k].text = "Summary"}}

\* the asynchronous tests a suite body registered (testasync ran to its end)
BodyAsync(s) ==
    {t \in TestIds : /\ tests[t].kind = "testasync"
                     /\ tests[t].by = s
                     /\ tests[t].registered}

\* those of them that testasync attributed to that same suite
OwnAsync(s) == {t \in BodyAsync(s) : tests[t].meta = s}

Fulfilled(T) == {t \in T : promise[t].state = "fulfilled"}
Rejected(T) == {t \in T : promise[t].state = "rejected"}

\* every test of T has had its handler run, and a summary counts them all
Included(s, T) ==
    /\ \A t \in T : tests[t].handled
    /\ \A sm \in Summaries(s) : /\ sm[1] >= Cardinality(Fulfilled(T))
                                /\ sm[3] >= Cardinality(Rejected(T))

\* where in a suite's buffer the outcome of test t was reported (0: nowhere)
OutcomeAt(s, t) ==
    LET at == {k \in 1..Len(suites[s].messages) :
                 /\ suites[s].messages[k].label = <<t>>
                 /\ suites[s].messages[k].text \in {"PASS", "FAIL", "TEST CODE FAILURE"}}
    IN  IF at = {} THEN 0 ELSE CHOOSE k \in at : \A j \in at : k <= j

(***************************************************************************)
(* C1: every summary a suite produces shows attempts = passed + failed,    *)
(* whatever mix of synchronous and asynchronous tests it ran.              *)
(***************************************************************************)
C1_SummaryBalanced ==
    \A s \in SuiteIds : \A sm \in Summaries(s) : sm[2] = sm[1] + sm[3]

(***************************************************************************)
(* C2: a suite that has produced its summary has seen every asynchronous   *)
(* test registered by its body settle and be handled, and the summary      *)
(* counts those outcomes.                                                  *)
(***************************************************************************)
C2_SummaryIncludesBodyTests ==
    \A s \in SuiteIds : phase[s] = "reported" => Included(s, BodyAsync(s))

\* C2 as amended: the same, for the asynchronous tests the body registered
\* while the suite was still the current suite
C2_SummaryIncludesOwnTests ==
    \A s \in SuiteIds : phase[s] = "reported" => Included(s, OwnAsync(s))

\* a reported suite whose two asynchronous tests settled in the reverse of
\* the order they were registered in
C2_Witness ==
    \E s \in SuiteIds : \E t1, t2 \in OwnAsync(s) :
        /\ phase[s] = "reported"
        /\ t1 < t2
        /\ OutcomeAt(s, t2) > 0
        /\ OutcomeAt(s, t2) < OutcomeAt(s, t1)

(***************************************************************************)
(* C3: a call of test made by a suite body returns normally whatever fn    *)
(* does, and the body goes on.                                             *)
(***************************************************************************)
C3_TestNeverThrows ==
    (call.op = "test" /\ call.by # NoSuite) =>
        /\ ~call.threw
        /\ stack # <<>>
        /\ Last(stack) = call.by
        /\ phase[call.by] = "running"

\* fn threw a general Error inside a suite body and the test was tallied
C3_Witness ==
    /\ call.op = "test"
    /\ call.by # NoSuite
    /\ call.outcome = "Error"
    /\ suites[call.meta].failed >= 1

(***************************************************************************)
(* C4: nothing leaves a call of testasync made by a suite body, and no     *)
(* suite's promise rejects.                                                *)
(***************************************************************************)
C4_TestAsyncNeverThrows ==
    /\ (call.op = "testasync" /\ call.by # NoSuite) => ~call.threw
    /\ \A s \in SuiteIds : phase[s] # "rejected"

(***************************************************************************)
(* C5: passed and failed change only when a test's outcome is tallied, and *)
(* then exactly one of them grows by one and the messages of that kind of  *)
(* outcome are buffered, by test and by the handlers of testasync alike.   *)
(***************************************************************************)
\* the messages an outcome of the given kind must buffer for test t
Expected(kind, t) ==
    CASE kind = "pass" -> <<Msg("info", "PASS", <<t>>)>>
      [] kind = "TestError" -> <<Msg("error", "FAIL", <<t>>),
                                 Msg("error", "TestError", <<t>>)>>
      [] OTHER -> <<Msg("error", "TEST CODE FAILURE", <<t>>),
                    Msg("info", "HINT", <<t>>),
                    Msg("error", "Error", <<t>>)>>

C5_Step ==
    LET tallied == {t \in TestIds : tests'[t].handled /\ ~tests[t].handled}
        grown(s) == SubSeq(suites'[s].messages, Len(suites[s].messages) + 1,
                           Len(suites'[s].messages))
    IN  /\ Cardinality(tallied) <= 1
        /\ \A s \in SuiteIds :
             (\A t \in tallied : tests'[t].meta # s) =>
                 /\ suites'[s].passed = suites[s].passed
                 /\ suites'[s].failed = suites[s].failed
        /\ \A t \in tallied :
             LET s == tests'[t].meta
                 kind == IF tests'[t].kind = "test"
                         THEN (IF call'.outcome = "returns" THEN "pass"
                               ELSE call'.outcome)
                         ELSE (IF promise[t].state = "fulfilled" THEN "pass"
                               ELSE promise[t].error)
             IN  /\ suites'[s].passed =
                        suites[s].passed + (IF kind = "pass" THEN 1 ELSE 0)
                 /\ suites'[s].failed =
                        suites[s].failed + (IF kind = "pass" THEN 0 ELSE 1)
                 /\ grown(s) = Expected(kind, t)

C5_OutcomesTallied == [][C5_Step]_vars

\* the catch handler of testasync has tallied a general failure
C5_Witness ==
    \E t \in TestIds :
        /\ tests[t].kind = "testasync"
        /\ tests[t].handled
        /\ promise[t].error = "Error"
        /\ OutcomeAt(tests[t].meta, t) > 0

(***************************************************************************)
(* Observations used by the properties of the recorder.                    *)
(***************************************************************************)
\* the records of the log, in order
Log == [i \in 1..Len(memos) |-> memo[memos[i]]]

\* the argument lists match: same length, loosely equal at every position
ArgsMatch(a, b) == Len(a) = Len(b) /\ \A i \in 1..Len(a) : LooseEq(a[i], b[i])

(***************************************************************************)
(* C6: with ordinary invocations and sentinel retrievals alone, the log    *)
(* (and the log a retrieval returns) has one record per ordinary           *)
(* invocation, in order, with that invocation's arguments; a retrieval     *)
(* creates no record and does not enter fn.                                *)
(***************************************************************************)
C6_LogRecordsInvocations ==
    /\ Len(memo) = Len(invoked)
    /\ Len(fnout) = Len(invoked)
    /\ ~lcwaUsed =>
          /\ Len(Log) = Len(invoked)
          /\ \A i \in 1..Len(Log) : Log[i].args = invoked[i]
          /\ result.op = "retrieve" => result.log = memos

\* a retrieval after two ordinary invocations with different arguments, one
\* of which passed the sentinel among other arguments
C6_Witness ==
    /\ result.op = "retrieve"
    /\ ~lcwaUsed
    /\ Len(invoked) = 2
    /\ invoked[1] = <<Memos, "n1">>
    /\ invoked[2] = <<"sa">>
    /\ Len(result.log) = 2

(***************************************************************************)
(* C7: the log is append-only: it always holds one record per ordinary     *)
(* invocation made so far, whatever matchers have been used.               *)
(***************************************************************************)
C7_LogAppendOnly ==
    /\ Len(memos) = Len(invoked)
    /\ \A i \in 1..Len(memos) : memos[i] = i

(***************************************************************************)
(* C8: the wrapper returns what fn returns and rethrows what fn throws,    *)
(* its record is in the log while fn runs, and a record carries exactly    *)
(* one of result and error.                                                *)
(***************************************************************************)
C8_Transparent ==
    /\ result.op = "return" =>
          LET id == result.log[1]
          IN  /\ result.ok = (fnout[id].kind = "return")
              /\ result.value = fnout[id].value
    /\ ~lcwaUsed => \A k \in 1..Len(inflight) :
                       \E i \in 1..Len(memos) : memos[i] = inflight[k]

C8_Recorded(id) ==
    /\ memo[id].hasResult # memo[id].hasError
    /\ memo[id].hasResult = (fnout[id].kind = "return")
    /\ memo[id].hasResult => memo[id].result = fnout[id].value
    /\ memo[id].hasError => memo[id].error = fnout[id].value

\* C8 as claimed: in every state, every record of the log
C8_ExactlyOneAlways ==
    /\ C8_Transparent
    /\ \A i \in 1..Len(memos) : C8_Recorded(memos[i])

\* C8 as amended: every record whose call has ended; a record whose call is
\* still executing carries neither
C8_ExactlyOneOnceEnded ==
    /\ C8_Transparent
    /\ \A i \in 1..Len(memos) :
          IF fnout[memos[i]].kind = "running"
          THEN ~memo[memos[i]].hasResult /\ ~memo[memos[i]].hasError
          ELSE C8_Recorded(memos[i])

\* the log is read while a call is executing, after an earlier call threw
C8_Witness ==
    /\ result.op = "retrieve"
    /\ Len(inflight) >= 1
    /\ \E i \in 1..Len(memos) : memo[memos[i]].hasError
    /\ \E i \in 1..Len(memos) : fnout[memos[i]].kind = "running"

(***************************************************************************)
(* C9: with these three matchers alone, wasNotCalled succeeds iff the      *)
(* wrapper was invoked 0 times, wasCalled iff at least once, wasCalledOnce *)
(* iff exactly once, and each failure is a TestError.                      *)
(***************************************************************************)
C9_CountMatchers ==
    LET k == Len(invoked)
    IN  ~lcwaUsed =>
          /\ result.op = "wasNotCalled" =>
                result.value = IF k = 0 THEN "ok" ELSE "TestError"
          /\ result.op = "wasCalled" =>
                result.value = IF k >= 1 THEN "ok" ELSE "TestError"
          /\ result.op = "wasCalledOnce" =>
                result.value = IF k = 1 THEN "ok" ELSE "TestError"

\* wasCalledOnce fails on a wrapper invoked twice
C9_Witness ==
    /\ ~lcwaUsed
    /\ Len(invoked) = 2
    /\ result.op = "wasCalledOnce"
    /\ result.value = "TestError"

(***************************************************************************)
(* C10: lastCalledWithArgs succeeds iff the wrapper has been invoked and   *)
(* the arguments of its most recent ordinary invocation match the given    *)
(* ones, at any point of any sequence of invocations and matchers.         *)
(***************************************************************************)
C10_LastCalledWithArgs ==
    result.op = "lastCalledWithArgs" =>
        ((result.value = "ok") <=>
            (Len(invoked) >= 1 /\ ArgsMatch(Last(invoked), result.args)))

(***************************************************************************)
(* Observations used by the properties of toThrow and yields.              *)
(***************************************************************************)
ToThrowChecks == {i \in 1..Len(chain) : chain[i].op = "toThrow"}
YieldsChecks == {i \in 1..Len(chain) : chain[i].op = "yields"}

\* the function given to expect threw an error that is the expected class
\* or one of its subclasses
ThrewExpected(c) ==
    /\ c.fn.ends = "throws"
    /\ InstanceOf(c.fn.error.class, c.kind)

ThrewTestError(c) ==
    /\ c.fn.ends = "throws"
    /\ InstanceOf(c.fn.error.class, "TestError")

(***************************************************************************)
(* C11: expect(fn).toThrow(Kind) fails with a TestError when fn returns    *)
(* normally, fails when fn throws an error that is not an instance of      *)
(* Kind, and succeeds, returning the expectation, whenever fn throws an    *)
(* error that is Kind or a subclass of Kind, for every Kind, the default   *)
(* Error and TestError included.                                           *)
(***************************************************************************)
C11_ToThrowEveryKind ==
    \A i \in ToThrowChecks :
        LET c == chain[i]
        IN  /\ c.fn.ends = "returns" =>
                 /\ c.out.ends = "throws"
                 /\ InstanceOf(c.out.error.class, "TestError")
            /\ (c.fn.ends = "throws" /\ ~ThrewExpected(c)) => c.out.ends = "throws"
            /\ ThrewExpected(c) => c.out = Returns("this")

(***************************************************************************)
(* C11 as the code has it: toThrow succeeds, returning the expectation,    *)
(* whenever fn throws an error that is Kind or a subclass of Kind and is   *)
(* no TestError; a TestError thrown by fn makes toThrow fail whatever Kind *)
(* is, Error and TestError included.  It fails with a TestError when fn    *)
(* returns normally and fails when fn throws an error that is not an       *)
(* instance of Kind.                                                       *)
(***************************************************************************)
C11_ToThrowExceptTestError ==
    \A i \in ToThrowChecks :
        LET c == chain[i]
        IN  /\ c.fn.ends = "returns" =>
                 /\ c.out.ends = "throws"
                 /\ InstanceOf(c.out.error.class, "TestError")
            /\ (c.fn.ends = "throws" /\ ~ThrewExpected(c)) => c.out.ends = "throws"
            /\ (ThrewExpected(c) /\ ~ThrewTestError(c)) => c.out = Returns("this")
            /\ ThrewTestError(c) => c.out.ends = "throws"

\* fn of the test made two checks: a CustomError passed for RangeError, and
\* a TestError thrown by the probed function did not pass for TestError
C11_Witness ==
    /\ Len(chain) = 2
    /\ chain[1].op = "toThrow"
    /\ chain[1].fn = Raises(ErrorObject("CustomError", "fn"))
    /\ chain[1].kind = "RangeError"
    /\ chain[1].out = Returns("this")
    /\ chain[2].op = "toThrow"
    /\ chain[2].fn = Raises(ErrorObject("TestError", "fn"))
    /\ chain[2].kind = "TestError"
    /\ chain[2].out.ends = "throws"

(***************************************************************************)
(* C12: a violated expectation is raised as a TestError and reported as    *)
(* FAIL.  When toThrow(Kind) catches an error that is not an instance of   *)
(* Kind, the error toThrow raises is a TestError, and the test around it   *)
(* is tallied as failed with the FAIL message, not TEST CODE FAILURE.      *)
(***************************************************************************)
C12_ViolationIsTestError ==
    \A i \in ToThrowChecks :
        LET c == chain[i]
        IN  (c.fn.ends = "throws" /\ ~ThrewExpected(c)) =>
                /\ c.out.ends = "throws"
                /\ InstanceOf(c.out.error.class, "TestError")
                /\ verdict # <<>> =>
                     /\ verdict[1].failed = 1
                     /\ \E k \in 1..Len(verdict[1].messages) :
                            verdict[1].messages[k].text = "FAIL"
                     /\ \A k \in 1..Len(verdict[1].messages) :
                            verdict[1].messages[k].text # "TEST CODE FAILURE"

(***************************************************************************)
(* C13: when the function given to expect throws a TestError, toThrow      *)
(* throws that same error object, whatever Kind was expected.              *)
(***************************************************************************)
C13_TestErrorRethrown ==
    \A i \in ToThrowChecks :
        LET c == chain[i]
        IN  ThrewTestError(c) => c.out = Raises(c.fn.error)

\* the probed function threw a TestError while Error was expected, and the
\* test around toThrow has been tallied
C13_Witness ==
    /\ verdict # <<>>
    /\ \E i \in ToThrowChecks :
          /\ ThrewTestError(chain[i])
          /\ chain[i].kind = "Error"
          /\ chain[i].out.error.origin = "fn"

(***************************************************************************)
(* C17: expect(v).yields(count) succeeds exactly when v yields count       *)
(* items: it fails with a TestError when v yields more than count items,   *)
(* count + 1 included, and when v yields fewer.                            *)
(***************************************************************************)
C17_YieldsExactly ==
    \A i \in YieldsChecks :
        LET c == chain[i]
        IN  /\ c.out.ends = "returns" <=> c.n = c.count
            /\ c.out.ends = "throws" => InstanceOf(c.out.error.class, "TestError")

(***************************************************************************)
(* More observations of the runner.                                        *)
(***************************************************************************)
\* the calls of test and testasync a suite body made
Calls(s) == {t \in TestIds : tests[t].kind # "none" /\ tests[t].by = s}

\* those that passed and those that failed, by what fn did or by how the
\* promise of asyncfn settled
Passes(T) ==
    {t \in T : \/ tests[t].kind = "test" /\ tests[t].outcome = "returns"
               \/ /\ tests[t].kind = "testasync"
                  /\ tests[t].registered
                  /\ promise[t].state = "fulfilled"}

Failures(T) ==
    {t \in T : \/ tests[t].kind = "test" /\ tests[t].outcome # "returns"
               \/ /\ tests[t].kind = "testasync"
                  /\ tests[t].registered
                  /\ promise[t].state = "rejected"}

\* no suite is active: no suite body is executing, and no suite was ever
\* started or the most recent one has reported
NoActiveSuite ==
    /\ stack = <<>>
    /\ IF currentsuite = NoSuite THEN TRUE ELSE phase[currentsuite] = "reported"

\* suites were started one after another, none from inside the body of
\* another, and every test was registered by a suite body while it executed
BackToBack ==
    /\ \A s \in SuiteIds : enclosing[s] = NoSuite
    /\ \A t \in TestIds : tests[t].kind # "none" => tests[t].by # NoSuite

(***************************************************************************)
(* C14: a call of test or testasync made while no suite is active (before  *)
(* any suite was started, or after the most recent suite has reported)     *)
(* does not throw and changes no suite's counters or message buffer.  The  *)
(* calls looked at are those whose asyncfn returns a promise.              *)
(***************************************************************************)
C14_Step ==
    (/\ NoActiveSuite
     /\ call'.op \in {"test", "testasync"}
     /\ ~AsyncThrew(call'.outcome)) =>
        /\ ~call'.threw
        /\ \A s \in SuiteIds :
              /\ suites'[s].attempts = suites[s].attempts
              /\ suites'[s].passed = suites[s].passed
              /\ suites'[s].failed = suites[s].failed
              /\ suites'[s].messages = suites[s].messages

C14_NoSuiteCallsHarmless == [][C14_Step]_vars

(***************************************************************************)
(* C15: when suites are started back to back without awaiting, by bodies   *)
(* that register their tests synchronously, every summary of a suite       *)
(* counts exactly the calls of test and testasync its own body made: as    *)
(* attempts all of them, as passed and failed those of them that passed    *)
(* and failed, also while an earlier suite is still draining.              *)
(***************************************************************************)
C15_SuitesIsolated ==
    BackToBack =>
        \A s \in SuiteIds : \A sm \in Summaries(s) :
            /\ sm[2] = Cardinality(Calls(s))
            /\ sm[1] = Cardinality(Passes(Calls(s)))
            /\ sm[3] = Cardinality(Failures(Calls(s)))

\* two suites started back to back: the second one, with a test of its own,
\* reported while the first was still waiting for its asynchronous test, and
\* then the first reported too
C15_Witness ==
    /\ BackToBack
    /\ phase[1] = "reported"
    /\ phase[2] = "reported"
    /\ output[1].suite = 2
    /\ BodyAsync(1) # {}
    /\ Calls(2) # {}

(***************************************************************************)
(* C16: nothing of a suite is written to the output before all pending     *)
(* asynchronous tests of that suite have settled; and what is written is   *)
(* the suite's buffer as one block in the order buffered, the start        *)
(* message first, the summary and the separator last, with no message of   *)
(* another suite in between.                                               *)
(***************************************************************************)
C16_Step ==
    output' # output =>
        \E s \in SuiteIds :
            LET written == SubSeq(output', Len(output) + 1, Len(output'))
                n == Len(written)
            IN  /\ written = Report(s, suites'[s])
                /\ \A i \in 1..Len(output) : output'[i] = output[i]
                /\ \A i \in 1..Len(output) : output[i].suite # s
                /\ n >= 3
                /\ written[1].msg.text = "Starting"
                /\ written[n - 1].msg.text = "Summary"
                /\ written[n].msg.text = "Separator"
                /\ \A t \in TestIds :
                      (tests[t].meta = s /\ tests[t].registered) =>
                          Settled(promise[t])

C16_FlushedOnceSettled == [][C16_Step]_vars

(***************************************************************************)
(* C18: a suite reports if and only if every asynchronous test registered  *)
(* by its body (while it was the current suite) settles.  With every       *)
(* pending promise settling at some time, a suite whose body was started   *)
(* reports at some time; and a suite never reports, nor writes anything,   *)
(* while one of those tests has not settled.                               *)
(***************************************************************************)
C18_ReportsIffAllSettle ==
    \A s \in SuiteIds :
        /\ [](phase[s] = "running" => <>(phase[s] = "reported"))
        /\ []((phase[s] = "reported" \/ \E i \in 1..Len(output) : output[i].suite = s)
                 => \A t \in OwnAsync(s) : Settled(promise[t]))

(***************************************************************************)
(* C19: every registration attributed to a suite happens before the suite  *)
(* begins to wait: no pass or fail handler of an asynchronous test runs    *)
(* before the body of its suite has returned, and every asynchronous test  *)
(* whose attempt the suite counts is in the list the suite waits on, also  *)
(* a test registered by the continuation of an asynchronous test after an  *)
(* await.  The tests looked at are those whose asyncfn returned a promise. *)
(***************************************************************************)
C19_RegisteredBeforeWaiting ==
    \A t \in TestIds :
        (tests[t].kind = "testasync" /\ tests[t].registered) =>
            LET s == tests[t].meta
            IN  /\ tests[t].handled => phase[s] # "running"
                /\ phase[s] \in {"draining", "reported"} => tests[t].awaited

\* the asynchronous tests of a suite whose then or catch handler has yet to run
AwaitingHandler(s, T) ==
    {t \in TestIds : /\ T[t].kind = "testasync"
                     /\ T[t].meta = s
                     /\ T[t].registered
                     /\ ~T[t].handled}

(***************************************************************************)
(* C20: from the start of a suite's body to its report, attempts is at     *)
(* least passed + failed, none of the three counters decreases, and        *)
(* attempts - (passed + failed) is the number of registered asynchronous   *)
(* tests whose handler has not run yet.  (A synchronous test runs within   *)
(* one step, so none is executing in a state.)                             *)
(***************************************************************************)
C20_Step ==
    \A s \in SuiteIds :
        /\ phase[s] \in {"running", "draining"} =>
              /\ suites'[s].attempts >= suites[s].attempts
              /\ suites'[s].passed >= suites[s].passed
              /\ suites'[s].failed >= suites[s].failed
        /\ phase'[s] \in {"running", "draining"} =>
              /\ suites'[s].attempts >= suites'[s].passed + suites'[s].failed
              /\ suites'[s].attempts - (suites'[s].passed + suites'[s].failed)
                   = Cardinality(AwaitingHandler(s, tests'))

C20_PessimisticAccounting == [][C20_Step]_vars

(***************************************************************************)
(* C21: suites that share currentsuite corrupt each other's counts.  Once  *)
(* a suite B has been started inside the body of suite A, every test the   *)
(* body of A registers is tallied in the suite started last, not in A: A's *)
(* counters and messages stay as they are and the other suite's attempts   *)
(* grow.  So a summary of A counts only the calls of its body that came    *)
(* before, and a summary of B counts the calls of B's body and also those  *)
(* of A's body that were tallied in B.                                     *)
(***************************************************************************)
Strayed(A, B, T) == {t \in TestIds : /\ T[t].kind # "none"
                                      /\ T[t].by = A
                                      /\ T[t].meta = B}

C21_Step ==
    /\ (/\ call'.op \in {"test", "testasync"}
        /\ call'.by # NoSuite
        /\ \E B \in SuiteIds : enclosing[B] = call'.by /\ phase[B] # "idle") =>
           LET A == call'.by
               B == call'.meta
           IN  /\ B = nsuites
               /\ B # A
               /\ suites'[A] = suites[A]
               /\ suites'[B].attempts = suites[B].attempts + 1
    /\ \A A, B \in SuiteIds :
          (enclosing'[B] = A /\ phase'[B] # "idle") =>
             /\ \A sm \in {suites'[A].messages[i].label : i \in
                             {k \in 1..Len(suites'[A].messages) :
                                suites'[A].messages[k].text = "Summary"}} :
                   sm[2] = Cardinality(Strayed(A, A, tests'))
             /\ \A sm \in {suites'[B].messages[i].label : i \in
                             {k \in 1..Len(suites'[B].messages) :
                                suites'[B].messages[k].text = "Summary"}} :
                   sm[2] >= Cardinality(Strayed(B, B, tests'))
                              + Cardinality(Strayed(A, B, tests'))

C21_NestedSuitesCorrupt == [][C21_Step]_vars

\* suite 2 was started inside the body of suite 1, which then registered a
\* test; both have reported: the summary of 1 counts fewer attempts than
\* its body made and the summary of 2 more
C21_Witness ==
    /\ enclosing[2] = 1
    /\ phase[1] = "reported"
    /\ phase[2] = "reported"
    /\ Strayed(1, 2, tests) # {}
    /\ \A sm \in Summaries(1) : sm[2] < Cardinality(Calls(1))
    /\ \A sm \in Summaries(2) : sm[2] > Cardinality(Calls(2))

(***************************************************************************)
(* C22: a failing asynchronous test leaves no rejection unhandled.  The    *)
(* promise asyncfn returned, when it rejects, has the handler of catch     *)
(* attached; the promise that then returned never rejects without a        *)
(* handler; the promise that catch returned fulfils, as its handler        *)
(* returns normally.                                                       *)
(***************************************************************************)
C22_NoUnhandledRejection ==
    /\ \A t \in TestIds : promise[t].state = "rejected" => tests[t].registered
    /\ unhandled = {}

====
